---------------------------- MODULE Spec2Model ----------------------------
(***************************************************************************)
(* A model of src/blake.rs: a proof-of-work nonce searcher.  main parses   *)
(* a 32-bit difficulty mask, builds the challenge suffix, and runs         *)
(* NUM_THREADS search closures on a parallel iterator.  Each closure walks *)
(* its own residue class of the nonce space, hashes hex16(nonce) ++ suffix *)
(* and publishes through two atomics (found, result_nonce) when the digest *)
(* passes hash_structure_good.  After the parallel loop main reads the two *)
(* atomics and prints the nonce.                                           *)
(*                                                                         *)
(* Scaling.  The u64 nonce counter is NonceBits wide and the addition is   *)
(* taken modulo 2^NonceBits (u64 addition wraps when overflow checks are   *)
(* off, as in the release profile).  The number of closures is             *)
(* 2^LogThreads (8 = 2^3 in the source).  The u32 mask and the digest      *)
(* bytes keep their width: a u32 is a sequence of 32 bits, most            *)
(* significant first.                                                      *)
(*                                                                         *)
(* Concurrency.  Atomic loads and stores are the interleaving points; a    *)
(* closure only ever loads found and stores found and result_nonce, so     *)
(* every acquire/release execution has the outcome of an interleaving.     *)
(* The closures are tasks of the parallel iterator: its pool has pool_size *)
(* threads (the number of hardware threads by default), and at most that   *)
(* many closures run at a time.                                            *)
(***************************************************************************)
EXTENDS Integers, Sequences, FiniteSets, TLC

LogThreads == 1
NonceBits == 2
MaxHashLen == 4
U32Bits == 32
HexWidth == 16
DigestLen == 32

NUM_THREADS == 2 ^ LogThreads
NonceSpace == 2 ^ NonceBits
Nonces == 0 .. (NonceSpace - 1)
Workers == 0 .. (NUM_THREADS - 1)
start_nonce == 0

VARIABLES
    args,             \* the command line (Args), fixed for the run
    pool_size,        \* threads in the parallel iterator's pool, fixed for the run
    main_pc,          \* position of main
    difficulty_mask,  \* u32 parsed at line 59; <<>> before that
    suffix,           \* String built at lines 62-70
    found,            \* AtomicBool
    result_nonce,     \* AtomicU64
    pc,               \* position of each closure of the parallel loop
    local_nonce,      \* each closure's counter
    preimage,         \* each closure's reused String buffer
    tested,           \* history: nonces each closure has passed to the predicate
    store_log,        \* history: the atomic stores, in the order they took effect
    stdout,           \* lines printed
    p_hash, p_mask, p_ret,  \* one call of hash_structure_good: arguments, <<result>>
    p_reads           \* the indices of p_hash that call has read

vars == <<args, pool_size, main_pc, difficulty_mask, suffix, found, result_nonce,
          pc, local_nonce, preimage, tested, store_log, stdout, p_hash, p_mask, p_ret,
          p_reads>>

searchVars == <<args, pool_size, main_pc, difficulty_mask, suffix, found, result_nonce,
                pc, local_nonce, preimage, tested, store_log, stdout>>

predVars == <<p_hash, p_mask, p_ret, p_reads>>

-----------------------------------------------------------------------------
(* Characters and bytes *)

HexDigits == <<"0", "1", "2", "3", "4", "5", "6", "7",
               "8", "9", "a", "b", "c", "d", "e", "f">>

Ascii ==
    ("0" :> 48) @@ ("1" :> 49) @@ ("2" :> 50) @@ ("3" :> 51) @@ ("4" :> 52) @@
    ("5" :> 53) @@ ("6" :> 54) @@ ("7" :> 55) @@ ("8" :> 56) @@ ("9" :> 57) @@
    ("a" :> 97) @@ ("b" :> 98) @@ ("c" :> 99) @@ ("d" :> 100) @@ ("e" :> 101) @@
    ("f" :> 102) @@ ("g" :> 103) @@ ("h" :> 104) @@ ("n" :> 110) @@ ("s" :> 115) @@
    ("F" :> 70) @@ ("+" :> 43) @@ ("-" :> 45)

as_bytes(s) == [k \in 1 .. Len(s) |-> Ascii[s[k]]]

\* char::to_digit(16)
to_digit(c) ==
    LET b == Ascii[c] IN
    IF b >= 48 /\ b <= 57 THEN b - 48
    ELSE IF b >= 97 /\ b <= 102 THEN b - 87
    ELSE IF b >= 65 /\ b <= 70 THEN b - 55
    ELSE -1

-----------------------------------------------------------------------------
(* u32 values as bit sequences, most significant bit first *)

Zero32 == [k \in 1 .. U32Bits |-> 0]
Ones32 == [k \in 1 .. U32Bits |-> 1]
ByteBits(b) == [k \in 1 .. 8 |-> (b \div (2 ^ (8 - k))) % 2]
NibbleBits(d) == [k \in 1 .. 4 |-> (d \div (2 ^ (4 - k))) % 2]
Not32(a) == [k \in 1 .. U32Bits |-> 1 - a[k]]
And32(a, b) == [k \in 1 .. U32Bits |-> a[k] * b[k]]

from_le_bytes(b) == ByteBits(b[4]) \o ByteBits(b[3]) \o ByteBits(b[2]) \o ByteBits(b[1])

\* u32::from_be_bytes
from_be_bytes(b) == ByteBits(b[1]) \o ByteBits(b[2]) \o ByteBits(b[3]) \o ByteBits(b[4])

\* missing bytes taken as zero instead of the early return
hash_structure_good_padded(hash, mask) ==
    \E padded \in {[k \in 1 .. 4 |-> IF k <= Len(hash) THEN hash[k] ELSE 0]} :
    \E hash_prefix \in {from_be_bytes(padded)} :
        And32(hash_prefix, Not32(mask)) = Zero32

hash_structure_good_nocomplement(hash, mask) ==
    IF Len(hash) < 4
    THEN FALSE
    ELSE \E hash_prefix \in {from_be_bytes(<<hash[1], hash[2], hash[3], hash[4]>>)} :
             And32(hash_prefix, mask) = Zero32

hash_structure_good(hash, mask) ==
    IF Len(hash) < 4
    THEN FALSE
    ELSE \E hash_prefix \in {from_be_bytes(<<hash[1], hash[2], hash[3], hash[4]>>)} :
             And32(hash_prefix, Not32(mask)) = Zero32

\* the indices hash_structure_good reads: none on the early return of lines
\* 32-34, hash[0..3] on line 36
HashReads(hash) == IF Len(hash) < 4 THEN {} ELSE {1, 2, 3, 4}

-----------------------------------------------------------------------------
(* u32::from_str_radix(src, 16): Ok(value) or Err(kind) *)

Ok(v) == [ok |-> TRUE, value |-> v]
Err(e) == [ok |-> FALSE, value |-> e]

RECURSIVE ParseDigits(_, _)
\* result = result.checked_mul(16)?.checked_add(digit)? over the digits
ParseDigits(digits, acc) ==
    IF digits = <<>> THEN Ok(acc)
    ELSE LET d == to_digit(Head(digits)) IN
         IF d < 0 THEN Err("InvalidDigit")
         ELSE IF SubSeq(acc, 1, 4) # <<0, 0, 0, 0>> THEN Err("PosOverflow")
         ELSE ParseDigits(Tail(digits), SubSeq(acc, 5, U32Bits) \o NibbleBits(d))

from_str_radix_or_default(src) ==
    IF src = <<>> THEN Ok(Zero32)
    ELSE LET r == ParseDigits(src, Zero32) IN IF r.ok THEN r ELSE Ok(Zero32)

from_str_radix(src) ==
    IF src = <<>> THEN Err("Empty")
    ELSE IF src = <<"+">> \/ src = <<"-">> THEN Err("InvalidDigit")
    ELSE IF Head(src) = "+" THEN ParseDigits(Tail(src), Zero32)
    ELSE ParseDigits(src, Zero32)

-----------------------------------------------------------------------------
(* Preimage and digest *)

RECURSIVE LowerHex(_)
\* the hexadecimal digits of n, without padding
LowerHex(n) ==
    IF n < 16 THEN <<HexDigits[n + 1]>>
    ELSE LowerHex(n \div 16) \o <<HexDigits[(n % 16) + 1]>>

\* format!("{:016x}", n)
hex16(n) ==
    LET digits == LowerHex(n) IN
    IF Len(digits) >= HexWidth THEN digits
    ELSE [k \in 1 .. (HexWidth - Len(digits)) |-> "0"] \o digits

\* format!("{}{}{}{}{}{}", ...) at lines 62-70
MakeSuffix(a) ==
    a.address \o a.challenge_id \o a.difficulty \o a.no_pre_mine
        \o a.latest_submission \o a.no_pre_mine_hour

BuildPreimage_noClear(buffer, n, suf) == buffer \o hex16(n) \o suf

\* preimage.clear(); write!(&mut preimage, "{:016x}{}", local_nonce, &suffix)
BuildPreimage(buffer, n, suf) ==
    LET cleared == SubSeq(buffer, 1, 0) IN cleared \o hex16(n) \o suf

\* the state after all the bytes
Absorb(bytes) ==
    LET state[k \in 0 .. Len(bytes)] ==
            IF k = 0 THEN 7 ELSE (state[k - 1] * 31 + bytes[k]) % 65521
    IN  state[Len(bytes)]

\* the output bytes
Squeeze(h) ==
    [k \in 1 .. DigestLen |-> ((h + k) * ((h % 251) + k)) % 256]

\* Blake2bVar::new(32), update, finalize_variable: the library's digest, stood in
\* for by a fixed deterministic function of the preimage bytes with 32 output bytes.
Blake2b(bytes) ==
    CHOOSE out \in {Squeeze(h) : h \in {Absorb(bytes)}} : TRUE

\* lines 91-107 for nonce n: does the candidate pass?
Accepts(n, suf, mask) ==
    \E output \in {Blake2b(as_bytes(BuildPreimage(<<>>, n, suf)))} :
        hash_structure_good(output, mask)

-----------------------------------------------------------------------------
(* The runs considered *)

Addresses == {<<"c">>, <<"f">>}

Difficulties ==
    { <<"f", "f", "f", "f", "f", "f", "f", "f">>,
      <<"0", "0", "0", "0", "0", "0", "0", "0">>,
      <<"3", "f", "f", "f", "f", "f", "f", "f">>,
      <<"+", "3", "F", "f", "f", "f", "f", "f", "f">>,
      <<>>,
      <<"f", "g">>,
      <<"-", "1">>,
      <<"1", "0", "0", "0", "0", "0", "0", "0", "0">> }

\* struct Args
ArgInputs ==
    { [address |-> a, challenge_id |-> <<"c", "h">>, difficulty |-> d,
       no_pre_mine |-> <<"n">>, latest_submission |-> <<"s">>,
       no_pre_mine_hour |-> <<"h">>] : a \in Addresses, d \in Difficulties }

PoolSizes == 1 .. NUM_THREADS

PredIdle == p_hash = <<>> /\ p_mask = Zero32 /\ p_ret = <<>> /\ p_reads = {}

Init ==
    /\ args \in ArgInputs
    /\ pool_size \in PoolSizes
    /\ main_pc = "start"
    /\ difficulty_mask = <<>>
    /\ suffix = <<>>
    /\ found = FALSE
    /\ result_nonce = 0
    /\ pc = [i \in Workers |-> "queued"]
    /\ local_nonce = [i \in Workers |-> 0]
    /\ preimage = [i \in Workers |-> <<>>]
    /\ tested = [i \in Workers |-> {}]
    /\ store_log = <<>>
    /\ stdout = <<>>
    /\ PredIdle

-----------------------------------------------------------------------------
(* main, lines 52-77 *)

\* u32::from_str_radix(&args.difficulty, 16).unwrap(), then the suffix and the
\* two atomics; a parse error panics and the process ends.
ParseDifficulty ==
    /\ main_pc = "start"
    /\ LET r == from_str_radix(args.difficulty) IN
       IF r.ok
       THEN /\ difficulty_mask' = r.value
            /\ suffix' = MakeSuffix(args)
            /\ found' = FALSE
            /\ result_nonce' = 0
            /\ main_pc' = "par_iter"
       ELSE /\ main_pc' = "panicked"
            /\ UNCHANGED <<difficulty_mask, suffix, found, result_nonce>>
    /\ UNCHANGED <<args, pool_size, pc, local_nonce, preimage, tested, store_log, stdout>>
    /\ UNCHANGED predVars

-----------------------------------------------------------------------------
(* The closure of the parallel loop, lines 79-115 *)

Running == {j \in Workers : pc[j] \notin {"queued", "done"}}

\* for_each halves the index range recursively; the thread that halves a range
\* queues the right half and goes on with the left one.  The closure at the
\* start of a right half is therefore handed out after the closure at the
\* start of the range that was halved.
SplitOrigin(i) ==
    LET low == CHOOSE p \in {2 ^ k : k \in 0 .. LogThreads} :
                   i % p = 0 /\ (i % (2 * p) # 0 \/ p = NUM_THREADS)
    IN  IF i = 0 THEN 0 ELSE i - low

HandedOut(i) == i = 0 \/ pc[SplitOrigin(i)] # "queued"

Start_sameOrigin(i) ==
    /\ main_pc = "par_iter"
    /\ pc[i] = "queued"
    /\ HandedOut(i)
    /\ Cardinality(Running) < pool_size
    /\ local_nonce' = [local_nonce EXCEPT ![i] = start_nonce]
    /\ preimage' = [preimage EXCEPT ![i] = <<>>]
    /\ pc' = [pc EXCEPT ![i] = "loop"]
    /\ UNCHANGED <<args, pool_size, main_pc, difficulty_mask, suffix, found,
                   result_nonce, tested, store_log, stdout>>
    /\ UNCHANGED predVars

\* The pool runs at most pool_size closures at a time; a closure that has been
\* handed out starts on a free thread.  Lines 79-89.
Start(i) ==
    /\ main_pc = "par_iter"
    /\ pc[i] = "queued"
    /\ HandedOut(i)
    /\ Cardinality(Running) < pool_size
    /\ local_nonce' = [local_nonce EXCEPT ![i] = (start_nonce + i) % NonceSpace]
    /\ preimage' = [preimage EXCEPT ![i] = <<>>]
    /\ pc' = [pc EXCEPT ![i] = "loop"]
    /\ UNCHANGED <<args, pool_size, main_pc, difficulty_mask, suffix, found,
                   result_nonce, tested, store_log, stdout>>
    /\ UNCHANGED predVars

LoopCheck_ignoresFlag(i) ==
    /\ pc[i] = "loop"
    /\ pc' = [pc EXCEPT ![i] = "eval"]
    /\ UNCHANGED <<args, pool_size, main_pc, difficulty_mask, suffix, found,
                   result_nonce, local_nonce, preimage, tested, store_log, stdout>>
    /\ UNCHANGED predVars

\* while !found.load(Ordering::Acquire), line 90
LoopCheck(i) ==
    /\ pc[i] = "loop"
    /\ pc' = [pc EXCEPT ![i] = IF found THEN "done" ELSE "eval"]
    /\ UNCHANGED <<args, pool_size, main_pc, difficulty_mask, suffix, found,
                   result_nonce, local_nonce, preimage, tested, store_log, stdout>>
    /\ UNCHANGED predVars

\* a stride that does not keep the residue class
Evaluate_strideOff(i) ==
    /\ pc[i] = "eval"
    /\ \E buffer \in {BuildPreimage(preimage[i], local_nonce[i], suffix)} :
       \E output \in {Blake2b(as_bytes(buffer))} :
       LET stride == NUM_THREADS + 1 IN
           /\ preimage' = [preimage EXCEPT ![i] = buffer]
           /\ tested' = [tested EXCEPT ![i] = @ \cup {local_nonce[i]}]
           /\ IF hash_structure_good(output, difficulty_mask)
              THEN /\ pc' = [pc EXCEPT ![i] = "store_found"]
                   /\ UNCHANGED local_nonce
              ELSE /\ local_nonce' =
                          [local_nonce EXCEPT ![i] = (@ + stride) % NonceSpace]
                   /\ pc' = [pc EXCEPT ![i] = "loop"]
    /\ UNCHANGED <<args, pool_size, main_pc, difficulty_mask, suffix, found,
                   result_nonce, store_log, stdout>>
    /\ UNCHANGED predVars

Evaluate_inverted(i) ==
    /\ pc[i] = "eval"
    /\ \E buffer \in {BuildPreimage(preimage[i], local_nonce[i], suffix)} :
       \E output \in {Blake2b(as_bytes(buffer))} :
       LET stride == NUM_THREADS IN
           /\ preimage' = [preimage EXCEPT ![i] = buffer]
           /\ tested' = [tested EXCEPT ![i] = @ \cup {local_nonce[i]}]
           /\ IF ~hash_structure_good(output, difficulty_mask)
              THEN /\ pc' = [pc EXCEPT ![i] = "store_found"]
                   /\ UNCHANGED local_nonce
              ELSE /\ local_nonce' =
                          [local_nonce EXCEPT ![i] = (@ + stride) % NonceSpace]
                   /\ pc' = [pc EXCEPT ![i] = "loop"]
    /\ UNCHANGED <<args, pool_size, main_pc, difficulty_mask, suffix, found,
                   result_nonce, store_log, stdout>>
    /\ UNCHANGED predVars

\* lines 91-107 and 113: build the preimage, hash it, test the digest; a
\* rejected candidate advances the counter by the stride.  (The buffer and the
\* digest are bound as values, each computed once.)
Evaluate(i) ==
    /\ pc[i] = "eval"
    /\ \E buffer \in {BuildPreimage(preimage[i], local_nonce[i], suffix)} :
       \E output \in {Blake2b(as_bytes(buffer))} :
       LET stride == NUM_THREADS IN
           /\ preimage' = [preimage EXCEPT ![i] = buffer]
           /\ tested' = [tested EXCEPT ![i] = @ \cup {local_nonce[i]}]
           /\ IF hash_structure_good(output, difficulty_mask)
              THEN /\ pc' = [pc EXCEPT ![i] = "store_found"]
                   /\ UNCHANGED local_nonce
              ELSE /\ local_nonce' =
                          [local_nonce EXCEPT ![i] = (@ + stride) % NonceSpace]
                   /\ pc' = [pc EXCEPT ![i] = "loop"]
    /\ UNCHANGED <<args, pool_size, main_pc, difficulty_mask, suffix, found,
                   result_nonce, store_log, stdout>>
    /\ UNCHANGED predVars

\* the flag is left as it is
StoreFound_noFlag(i) ==
    /\ pc[i] = "store_found"
    /\ pc' = [pc EXCEPT ![i] = "store_nonce"]
    /\ UNCHANGED <<args, pool_size, main_pc, difficulty_mask, suffix, found,
                   result_nonce, local_nonce, preimage, tested, store_log, stdout>>
    /\ UNCHANGED predVars

\* found.store(true, Ordering::Release), line 108
StoreFound(i) ==
    /\ pc[i] = "store_found"
    /\ found' = TRUE
    /\ store_log' = Append(store_log, [worker |-> i, loc |-> "found", val |-> TRUE])
    /\ pc' = [pc EXCEPT ![i] = "store_nonce"]
    /\ UNCHANGED <<args, pool_size, main_pc, difficulty_mask, suffix, result_nonce,
                   local_nonce, preimage, tested, stdout>>
    /\ UNCHANGED predVars

StoreNonce_advanced(i) ==
    /\ pc[i] = "store_nonce"
    /\ result_nonce' = (local_nonce[i] + NUM_THREADS) % NonceSpace
    /\ store_log' = Append(store_log,
                           [worker |-> i, loc |-> "result_nonce",
                            val |-> (local_nonce[i] + NUM_THREADS) % NonceSpace])
    /\ pc' = [pc EXCEPT ![i] = "done"]
    /\ UNCHANGED <<args, pool_size, main_pc, difficulty_mask, suffix, found,
                   local_nonce, preimage, tested, stdout>>
    /\ UNCHANGED predVars

StoreNonce_noBreak(i) ==
    /\ pc[i] = "store_nonce"
    /\ result_nonce' = local_nonce[i]
    /\ store_log' = Append(store_log,
                           [worker |-> i, loc |-> "result_nonce", val |-> local_nonce[i]])
    /\ pc' = [pc EXCEPT ![i] = "eval"]
    /\ UNCHANGED <<args, pool_size, main_pc, difficulty_mask, suffix, found,
                   local_nonce, preimage, tested, stdout>>
    /\ UNCHANGED predVars

\* result_nonce.store(local_nonce, Ordering::Release); break, lines 109-110
StoreNonce(i) ==
    /\ pc[i] = "store_nonce"
    /\ result_nonce' = local_nonce[i]
    /\ store_log' = Append(store_log,
                           [worker |-> i, loc |-> "result_nonce", val |-> local_nonce[i]])
    /\ pc' = [pc EXCEPT ![i] = "done"]
    /\ UNCHANGED <<args, pool_size, main_pc, difficulty_mask, suffix, found,
                   local_nonce, preimage, tested, stdout>>
    /\ UNCHANGED predVars

-----------------------------------------------------------------------------
(* main after the parallel loop, lines 115-119 *)

\* for_each returning as soon as one closure has returned
Join_early ==
    /\ main_pc = "par_iter"
    /\ \E i \in Workers : pc[i] = "done"
    /\ main_pc' = "joined"
    /\ UNCHANGED <<args, pool_size, difficulty_mask, suffix, found, result_nonce,
                   pc, local_nonce, preimage, tested, store_log, stdout>>
    /\ UNCHANGED predVars

\* for_each returns when every closure has returned
Join ==
    /\ main_pc = "par_iter"
    /\ \A i \in Workers : pc[i] = "done"
    /\ main_pc' = "joined"
    /\ UNCHANGED <<args, pool_size, difficulty_mask, suffix, found, result_nonce,
                   pc, local_nonce, preimage, tested, store_log, stdout>>
    /\ UNCHANGED predVars

\* if found.load(Ordering::Acquire), line 117
DriverLoadFound ==
    /\ main_pc = "joined"
    /\ main_pc' = IF found THEN "print" ELSE "exit"
    /\ UNCHANGED <<args, pool_size, difficulty_mask, suffix, found, result_nonce,
                   pc, local_nonce, preimage, tested, store_log, stdout>>
    /\ UNCHANGED predVars

\* println!("{:016x}", result_nonce.load(Ordering::Acquire)), line 118
DriverPrint ==
    /\ main_pc = "print"
    /\ stdout' = Append(stdout, hex16(result_nonce))
    /\ main_pc' = "exit"
    /\ UNCHANGED <<args, pool_size, difficulty_mask, suffix, found, result_nonce,
                   pc, local_nonce, preimage, tested, store_log>>
    /\ UNCHANGED predVars

Worker(i) ==
    \/ Start(i)
    \/ LoopCheck(i)
    \/ Evaluate(i)
    \/ StoreFound(i)
    \/ StoreNonce(i)

Next ==
    \/ ParseDifficulty
    \/ \E i \in Workers : Worker(i)
    \/ Join
    \/ DriverLoadFound
    \/ DriverPrint

Spec == Init /\ [][Next]_vars

\* Every thread of the pool and the main thread keep being scheduled.
Fairness ==
    /\ WF_vars(ParseDifficulty)
    /\ \A i \in Workers : WF_vars(Worker(i))
    /\ WF_vars(Join)
    /\ WF_vars(DriverLoadFound)
    /\ WF_vars(DriverPrint)

FairSpec == Spec /\ Fairness

-----------------------------------------------------------------------------
(* One call of hash_structure_good on its own *)

PredBytes == {0, 1, 16, 255}
PredMaskBytes == {0, 90, 255}

PredHashes == UNION {[1 .. n -> PredBytes] : n \in 0 .. MaxHashLen}
PredMasks == {from_be_bytes(m) : m \in [1 .. 4 -> PredMaskBytes]}

PredInit ==
    /\ p_hash \in PredHashes
    /\ p_mask \in PredMasks
    /\ p_ret = <<>>
    /\ p_reads = {}
    /\ args = CHOOSE a \in ArgInputs : a.difficulty = <<>> /\ a.address = <<"c">>
    /\ pool_size = 1
    /\ main_pc = "start"
    /\ difficulty_mask = <<>>
    /\ suffix = <<>>
    /\ found = FALSE
    /\ result_nonce = 0
    /\ pc = [i \in Workers |-> "queued"]
    /\ local_nonce = [i \in Workers |-> 0]
    /\ preimage = [i \in Workers |-> <<>>]
    /\ tested = [i \in Workers |-> {}]
    /\ store_log = <<>>
    /\ stdout = <<>>

PredCall ==
    /\ p_ret = <<>>
    /\ p_ret' = <<hash_structure_good(p_hash, p_mask)>>
    /\ p_reads' = HashReads(p_hash)
    /\ UNCHANGED <<p_hash, p_mask>>
    /\ UNCHANGED searchVars

PredNext == PredCall

PredSpec == PredInit /\ [][PredNext]_vars

-----------------------------------------------------------------------------
(* Vocabulary of the properties, stated on bytes and bits without the      *)
(* program's own predicate and parser                                      *)

\* bit k (0 = most significant) of the big-endian value of the first 4 bytes
HashBit(hash, k) == (hash[(k \div 8) + 1] \div (2 ^ (7 - (k % 8)))) % 2

\* every 0 bit of the mask is 0 in the prefix
PassesMask(hash, mask) ==
    /\ Len(hash) >= 4
    /\ \A k \in 0 .. (U32Bits - 1) : mask[k + 1] = 0 => HashBit(hash, k) = 0

\* the digest of hex16(n) ++ suffix
DigestOf(n) == Blake2b(as_bytes(hex16(n) \o suffix))

MaskParsed == main_pc \notin {"start", "panicked"}

NonceAccepted(n) ==
    MaskParsed /\ \E d \in {DigestOf(n)} : PassesMask(d, difficulty_mask)

NoAcceptingNonce == MaskParsed /\ \A n \in Nonces : ~NonceAccepted(n)

IsHexChar(c) == \E k \in 1 .. 16 : HexDigits[k] = c \/ c = "F"

\* a hexadecimal rendering of a 32-bit value: an optional "+", then at least one
\* hexadecimal digit, at most 8 of them after the leading zeros
WellFormedHex(s) ==
    LET body == IF s # <<>> /\ Head(s) = "+" THEN Tail(s) ELSE s
        lead == {k \in 1 .. Len(body) : \A j \in 1 .. k : body[j] = "0"}
    IN  /\ body # <<>>
        /\ \A k \in 1 .. Len(body) : IsHexChar(body[k])
        /\ Len(body) - Cardinality(lead) <= 8

Publishers == {store_log[k].worker : k \in {j \in 1 .. Len(store_log) :
                                              store_log[j].loc = "result_nonce"}}

AllDone == \A i \in Workers : pc[i] = "done"

-----------------------------------------------------------------------------
(* Properties *)

\* C1: when main, after the parallel loop, has observed found = TRUE and prints
\* result_nonce, the printed nonce is one whose digest of hex16(nonce) ++ suffix
\* passes the mask, whatever the interleaving of the closures.
C1_PrintedNonceAccepted ==
    /\ main_pc = "print" => found /\ NonceAccepted(result_nonce)
    /\ stdout # <<>> =>
          /\ stdout = <<hex16(result_nonce)>>
          /\ found
          /\ NonceAccepted(result_nonce)

\* two closures published, the initial value 0 is not accepting, the line is out
C1_Witness ==
    /\ stdout # <<>>
    /\ Cardinality(Publishers) >= 2
    /\ ~NonceAccepted(0)

\* C2: in every state in which found is TRUE, result_nonce holds a nonce whose
\* digest passes the mask (never the initial 0 or another rejected value).
C2_FoundImpliesAcceptedNonce ==
    found => NonceAccepted(result_nonce)

\* C3: no closure's store of found = TRUE precedes its own store to
\* result_nonce.
C3_NonceStoredBeforeFound ==
    \A k \in 1 .. Len(store_log) :
        store_log[k].loc = "found" =>
            \E j \in 1 .. (k - 1) :
                /\ store_log[j].worker = store_log[k].worker
                /\ store_log[j].loc = "result_nonce"

\* C4: once found is TRUE, every closure eventually leaves its loop, and main
\* then eventually prints a nonce (closures and main scheduled weakly fairly).
C4_TerminatesAfterWin ==
    /\ found ~> AllDone
    /\ found ~> (AllDone /\ stdout # <<>>)

\* a closure that never published has left its loop and the line is out
C4_Witness ==
    /\ found
    /\ AllDone
    /\ stdout # <<>>
    /\ \E i \in Workers : i \notin Publishers /\ tested[i] # {}

\* C5: closure i starts at nonce i and only tests nonces congruent to i modulo
\* NUM_THREADS; no nonce has been tested by two closures.
C5_DisjointResidueClasses ==
    \A i \in Workers :
        /\ \A n \in tested[i] : n % NUM_THREADS = i
        /\ tested[i] # {} => i \in tested[i]
        /\ (pc[i] \in {"loop", "eval"} /\ tested[i] = {}) => local_nonce[i] = i
        /\ \A j \in Workers : j # i => tested[i] \cap tested[j] = {}

\* every closure has tested at least two nonces
C5_Witness ==
    \A i \in Workers : Cardinality(tested[i]) >= 2

\* C6: when no nonce is accepting, every nonce n of the nonce space is
\* eventually tested by closure n mod NUM_THREADS.
C6_EveryNonceEventuallyTested ==
    \A n \in Nonces :
        (main_pc = "par_iter" /\ NoAcceptingNonce) ~> (n \in tested[n % NUM_THREADS])

\* C7: on a digest of at least 4 bytes hash_structure_good returns TRUE iff every
\* 0 bit of the mask is 0 in the big-endian value of the first 4 bytes; the mask
\* of all ones accepts every digest, the mask 0 only a prefix of four zero bytes.
C7_PredicateIsMaskTest ==
    (p_ret # <<>> /\ Len(p_hash) >= 4) =>
        /\ p_ret[1] = PassesMask(p_hash, p_mask)
        /\ p_mask = Ones32 => p_ret[1] = TRUE
        /\ p_mask = Zero32 => (p_ret[1] = (\A j \in 1 .. 4 : p_hash[j] = 0))

\* accepted under a mask that is neither all ones nor zero, with a nonzero prefix
C7_Witness ==
    /\ p_ret = <<TRUE>>
    /\ Len(p_hash) >= 4
    /\ p_mask \notin {Ones32, Zero32}
    /\ \E j \in 1 .. 4 : p_hash[j] # 0

\* the run uses the accept-anything mask
AcceptAnything == MaskParsed /\ difficulty_mask = Ones32

C8_FirstCandidateWins ==
    AcceptAnything =>
        /\ \A i \in Workers : Cardinality(tested[i]) <= 1
        /\ stdout # <<>> =>
              \E n \in 0 .. (NUM_THREADS - 1) :
                  /\ stdout = <<hex16(n)>>
                  /\ n \in tested[n]
                  /\ NonceAccepted(n)

\* C8: with mask 0xFFFFFFFF no closure evaluates more than one candidate, found
\* becomes TRUE, all closures terminate, and main prints a nonce in
\* [0, NUM_THREADS) that is some closure's first candidate and passes the mask.
C8_AcceptAnythingTerminates ==
    /\ [](C8_FirstCandidateWins)
    /\ (AcceptAnything /\ main_pc = "par_iter")
           ~> (found /\ AllDone /\ main_pc = "exit" /\ stdout # <<>>)

\* accept-anything run finished, one closure never evaluated a candidate
C8_Witness ==
    /\ AcceptAnything
    /\ main_pc = "exit"
    /\ stdout # <<>>
    /\ \E i \in Workers : tested[i] = {}
    /\ \E i \in Workers : tested[i] = {i}

C9_Quiet ==
    /\ found = FALSE
    /\ result_nonce = 0
    /\ store_log = <<>>
    /\ stdout = <<>>
    /\ main_pc \notin {"joined", "print", "exit"}
    /\ \A i \in Workers : pc[i] \notin {"store_found", "store_nonce", "done"}

\* C9: if no nonce of the nonce space has a digest that passes the mask, found
\* stays FALSE, result_nonce is unchanged, no closure terminates or accepts, and
\* main produces no output.
C9_NoFalsePositive ==
    C9_Quiet \/ ~NoAcceptingNonce

\* every nonce of the space has been tested and rejected
C9_Witness ==
    /\ NoAcceptingNonce
    /\ \A n \in Nonces : n \in tested[n % NUM_THREADS]

\* C10: a malformed difficulty string stops the run before the parallel loop:
\* no closure starts, no nonce is tested, found and result_nonce are never
\* written, nothing is printed.
C10_MalformedDifficultyIsFatal ==
    ~WellFormedHex(args.difficulty) =>
        /\ main_pc \in {"start", "panicked"}
        /\ \A i \in Workers : pc[i] = "queued" /\ tested[i] = {}
        /\ store_log = <<>>
        /\ found = FALSE
        /\ result_nonce = 0
        /\ stdout = <<>>

\* the parse of a malformed string has panicked
C10_Witness ==
    /\ main_pc = "panicked"
    /\ ~WellFormedHex(args.difficulty)
    /\ args.difficulty # <<>>

\* digit p (0 = least significant) of the 16-digit hexadecimal rendering of n
HexDigitAt(n, p) == IF p > 6 THEN "0" ELSE HexDigits[((n \div (16 ^ p)) % 16) + 1]

\* 16 lowercase hexadecimal digits of n, zero-padded, then the six fields in
\* the order address, challenge_id, difficulty, no_pre_mine, latest_submission,
\* no_pre_mine_hour, without separators
ExpectedPreimage(n) ==
    [k \in 1 .. HexWidth |-> HexDigitAt(n, HexWidth - k)]
        \o args.address \o args.challenge_id \o args.difficulty
        \o args.no_pre_mine \o args.latest_submission \o args.no_pre_mine_hour

HasPublishedOrAccepted(i) ==
    pc[i] \in {"store_found", "store_nonce"} \/ i \in Publishers

\* the candidate closure i evaluated last
LastTested(i) ==
    IF HasPublishedOrAccepted(i)
    THEN local_nonce[i]
    ELSE (local_nonce[i] + NonceSpace - NUM_THREADS) % NonceSpace

\* C11: the preimage hashed for candidate n is exactly the 16-digit zero-padded
\* lowercase hexadecimal rendering of n followed by the suffix (the six fields
\* in order, no separators), the same for every closure and iteration; the
\* reused buffer carries no bytes of an earlier candidate.
C11_PreimageIsHexNonceThenSuffix ==
    \A i \in Workers :
        IF tested[i] = {}
        THEN preimage[i] = <<>>
        ELSE /\ LastTested(i) \in tested[i]
             /\ preimage[i] = ExpectedPreimage(LastTested(i))
             /\ Len(preimage[i]) = HexWidth + Len(suffix)

\* two closures are past their second candidate, each with its own preimage
C11_Witness ==
    /\ \A i \in Workers : Cardinality(tested[i]) >= 2
    /\ \A i, j \in Workers : i # j => preimage[i] # preimage[j]
    /\ \E i \in Workers : LastTested(i) # i

\* C12: on a byte sequence shorter than 4 hash_structure_good returns FALSE for
\* every mask, the mask of all ones included, and reads no byte.
C12_ShortInputFailsClosed ==
    (p_ret # <<>> /\ Len(p_hash) < 4) => (p_ret = <<FALSE>> /\ p_reads = {})

\* a short, nonempty input was rejected under the accept-anything mask
C12_Witness ==
    /\ p_ret = <<FALSE>>
    /\ Len(p_hash) \in 1 .. 3
    /\ p_mask = Ones32

\* positions of the stores to one atomic, and by one closure
StoresTo(loc) == {k \in 1 .. Len(store_log) : store_log[k].loc = loc}
StoresBy(i, loc) == {k \in StoresTo(loc) : store_log[k].worker = i}
FoundStorers == {store_log[k].worker : k \in StoresTo("found")}
LastStore(loc) == store_log[CHOOSE k \in StoresTo(loc) : \A j \in StoresTo(loc) : j <= k]
FirstStore(loc) == store_log[CHOOSE k \in StoresTo(loc) : \A j \in StoresTo(loc) : k <= j]

\* the step is not a new store by closure i
NoStoreBy(i) ==
    store_log' = store_log \/ store_log'[Len(store_log')].worker # i

C13_Step ==
    \A i \in Workers :
        /\ (pc[i] = "loop" /\ found /\ pc'[i] # "loop") =>
               /\ pc'[i] = "done"
               /\ store_log' = store_log
               /\ found' = found
               /\ result_nonce' = result_nonce
        /\ (pc[i] = "done" /\ i \notin FoundStorers) =>
               /\ pc'[i] = "done"
               /\ NoStoreBy(i)

\* C13: a closure that finds found already set (by another closure) leaves its
\* loop without publishing, and from then on stores neither to found nor to
\* result_nonce.
C13_StoppedWithoutPublishing == [][C13_Step]_vars

\* a closure that tested candidates left through the flag check, never having
\* stored, and the run is over
C13_Witness ==
    /\ main_pc = "exit"
    /\ \E i \in Workers :
          /\ pc[i] = "done"
          /\ tested[i] # {}
          /\ StoresBy(i, "found") = {}
          /\ StoresBy(i, "result_nonce") = {}

\* the nonce published by the closure whose store to found came first
FirstFinderNonce ==
    LET w == FirstStore("found").worker
    IN  store_log[CHOOSE k \in StoresBy(w, "result_nonce") : TRUE].val

\* C14: the nonce main prints is the nonce of the closure that set found first.
C14_FirstFinderPrinted ==
    stdout # <<>> => stdout = <<hex16(FirstFinderNonce)>>

\* C14 as amended: the nonce main prints is the nonce of the closure whose store
\* to result_nonce came last; that closure set found and its nonce is accepted.
C14_LastPublisherPrinted ==
    stdout # <<>> =>
        LET e == LastStore("result_nonce") IN
            /\ stdout = <<hex16(e.val)>>
            /\ e.val = local_nonce[e.worker]
            /\ e.worker \in FoundStorers
            /\ e.val \in tested[e.worker]
            /\ NonceAccepted(e.val)

\* the printed nonce is not the one of the closure that set found first
C14_Witness ==
    /\ stdout # <<>>
    /\ stdout # <<hex16(FirstFinderNonce)>>
    /\ LastStore("result_nonce").worker # FirstStore("found").worker

\* C15: result_nonce is stored to at most once and found at most once,
\* across all closures.
C15_AtMostOneStoreEach ==
    /\ Cardinality(StoresTo("found")) <= 1
    /\ Cardinality(StoresTo("result_nonce")) <= 1

\* C15 as amended: each closure stores to found at most once and to result_nonce
\* at most once, so each atomic is stored to at most NUM_THREADS times; every
\* store to found writes TRUE.
C15_AtMostOneStorePerClosure ==
    /\ \A i \in Workers :
          /\ Cardinality(StoresBy(i, "found")) <= 1
          /\ Cardinality(StoresBy(i, "result_nonce")) <= 1
    /\ \A k \in StoresTo("found") : store_log[k].val = TRUE
    /\ Len(store_log) <= 2 * NUM_THREADS

\* both atomics have been stored to by two closures
C15_Witness ==
    /\ Cardinality(StoresTo("found")) >= 2
    /\ Cardinality(StoresTo("result_nonce")) >= 2
    /\ Cardinality(FoundStorers) >= 2

\* C16: once found is TRUE a closure only completes the evaluation it had
\* started before; at its next loop check it leaves, so no closure begins a
\* candidate evaluation while found is TRUE.
C16_NoNewEvaluationAfterWin ==
    [][\A i \in Workers :
          /\ (found /\ pc[i] # "eval") => pc'[i] # "eval"
          /\ (found /\ pc[i] = "loop" /\ pc'[i] # "loop") => pc'[i] = "done"
          /\ (found /\ pc[i] = "eval") => pc'[i] \in {"eval", "loop", "store_found"}]_vars

\* found is TRUE while another closure is inside an evaluation it started before
C16_Witness ==
    /\ found
    /\ \E i \in Workers : pc[i] = "eval" /\ i \notin FoundStorers

\* C17: while no nonce is accepting (found stays FALSE), every closure i tests
\* its first nonce i, whatever the other closures do.
C17_EveryWorkerTestsFirstNonce ==
    \A i \in Workers :
        (main_pc = "par_iter" /\ NoAcceptingNonce) ~> (i \in tested[i])

AfterJoin == main_pc \in {"joined", "print", "exit"}

C18_Step ==
    /\ AfterJoin =>
          /\ store_log' = store_log
          /\ found' = found
          /\ result_nonce' = result_nonce
          /\ pc' = pc
    /\ main_pc' = "print" => main_pc \in {"joined", "print"}
    /\ stdout' # stdout => (main_pc = "print" /\ stdout' = <<hex16(result_nonce)>>)

\* C18: main reads found and result_nonce only after every closure has returned,
\* found before result_nonce; after the join no closure stores to either atomic,
\* and the value printed is the final value of result_nonce.
C18_DriverReadsAfterJoin ==
    /\ [](AfterJoin => AllDone)
    /\ [](stdout # <<>> => (main_pc = "exit" /\ stdout = <<hex16(result_nonce)>>))
    /\ [][C18_Step]_vars

\* main has printed after two closures stored to result_nonce
C18_Witness ==
    /\ main_pc = "exit"
    /\ stdout = <<hex16(result_nonce)>>
    /\ Cardinality(StoresTo("result_nonce")) >= 2
    /\ AllDone

C19_Step ==
    /\ found => found'
    /\ result_nonce' # result_nonce => found
    /\ StoresTo("result_nonce")' # StoresTo("result_nonce") => found

\* C19: found starts FALSE and never goes back from TRUE to FALSE; result_nonce
\* is never written while found is still FALSE.
C19_FoundMonotonic ==
    /\ [](main_pc = "start" => ~found)
    /\ [](~found => (StoresTo("result_nonce") = {} /\ result_nonce = start_nonce))
    /\ [][C19_Step]_vars

\* found is TRUE, result_nonce has been written with a nonce other than its
\* initial value, and closures are still running
C19_Witness ==
    /\ found
    /\ StoresTo("result_nonce") # {}
    /\ result_nonce # start_nonce
    /\ main_pc = "par_iter"

ResidueClass(i) == {n \in Nonces : n % NUM_THREADS = i}

C20_Step ==
    \A i \in Workers :
        /\ (pc[i] = "eval" /\ pc'[i] = "loop") =>
              /\ local_nonce'[i] = (local_nonce[i] + NUM_THREADS) % NonceSpace
              /\ local_nonce'[i] \in ResidueClass(i)
        /\ (pc[i] = "eval" /\ pc'[i] # "eval") => pc'[i] \in {"loop", "store_found"}

=============================================================================
